---- MODULE Spec2Model ----
(***************************************************************************)
(* Weather aggregation core of PROGNOZA: canonical frames, the priority    *)
(* merge of WeatherRouter, the TTL cache and its concurrent callers, the   *)
(* providers' cached fetch, their HTTP request routines, the payload       *)
(* normalizers and the exit status of the CLI.                             *)
(*                                                                         *)
(* Time is counted in ticks of five minutes.  A numeric cell is a          *)
(* non-negative fixed-point integer, NaN is the missing value of a float   *)
(* column and NaNObj the missing value of the object column "source".      *)
(***************************************************************************)
EXTENDS Integers, Sequences, FiniteSets, TLC

VARIABLES sources, rpc, rcall, rresult, norm, callers, now, store, storeOk, cret, written, prov, pst, http

rvars == <<sources, rpc, rcall, rresult, norm, callers>>
cvars == <<now, store, storeOk, cret, written, prov, pst, http>>
vars == <<sources, rpc, rcall, rresult, norm, callers, now, store, storeOk, cret, written, prov, pst, http>>

(***************************************************************************)
(* Bounds                                                                  *)
(***************************************************************************)
MaxStep == 2
MaxSources == 2
MaxClock == 4
Ttl == 2
MaxRetries == 2
MaxBackoff == 2
MaxEntries == 2

(***************************************************************************)
(* Program constants                                                       *)
(***************************************************************************)
REQUIRED_COLUMNS == <<"temp_C", "wind_ms", "wind_deg", "clouds_pct", "humidity", "uvi", "ghi_Wm2">>
NowcastFreq == 3
HourTicks == 12

NaN == -1
NaNObj == "NaN"

(***************************************************************************)
(* Sequences and sets                                                      *)
(***************************************************************************)
Range(s) == {s[i] : i \in DOMAIN s}

Min(S) == CHOOSE x \in S : \A y \in S : x <= y

Max(S) == CHOOSE x \in S : \A y \in S : x >= y

RECURSIVE SortedSeq(_)
SortedSeq(S) == IF S = {} THEN <<>> ELSE <<Min(S)>> \o SortedSeq(S \ {Min(S)})

(***************************************************************************)
(* Frames: a pandas DataFrame is its column list, its index (a sequence    *)
(* of timestamps) and the row stored at each index label.                  *)
(***************************************************************************)
Frame(cols, idx, rows) == [columns |-> cols, index |-> idx, rows |-> rows]

\* A missing cell: NaN in a numeric column, a missing object in "source".
Missing(c) == IF c = "source" THEN NaNObj ELSE NaN

NaNRow(cols) == [c \in Range(cols) |-> Missing(c)]

IsEmpty(frame) == Len(frame.index) = 0 \/ Len(frame.columns) = 0

Loc(frame, lo, hi) ==
    LET keep == SelectSeq(frame.index, LAMBDA t : t >= lo /\ t <= hi)
    IN Frame(frame.columns, keep, [t \in Range(keep) |-> frame.rows[t]])

ensure_utc_index(frame) ==
    Frame(frame.columns, SortedSeq(Range(frame.index)), frame.rows)

ensure_schema(frame) ==
    LET working == ensure_utc_index(frame)
    IN Frame(REQUIRED_COLUMNS, working.index,
             [t \in Range(working.index) |->
                 [c \in Range(REQUIRED_COLUMNS) |->
                     IF c \in Range(working.columns) THEN working.rows[t][c] ELSE NaN]])

_build_frame_bare == Frame(<<>>, <<>>, [t \in {} |-> NaNRow(<<>>)])

_build_frame_empty == Frame(REQUIRED_COLUMNS, <<>>, [t \in {} |-> NaNRow(REQUIRED_COLUMNS)])

empty_frame == _build_frame_empty

RECURSIVE UnionIndices(_, _)
UnionIndices(indices, k) ==
    IF k > Len(indices) THEN {} ELSE Range(indices[k]) \cup UnionIndices(indices, k + 1)

align_frames_tail(frames) ==
    LET nonEmpty == SelectSeq(frames, LAMBDA f : ~IsEmpty(f))
        indices == [i \in DOMAIN nonEmpty |-> ensure_utc_index(nonEmpty[i]).index]
        union == SortedSeq(UnionIndices(indices, 1))
    IN IF Len(union) = 0 THEN union ELSE Tail(union)

align_frames(frames) ==
    LET nonEmpty == SelectSeq(frames, LAMBDA f : ~IsEmpty(f))
        indices == [i \in DOMAIN nonEmpty |-> ensure_utc_index(nonEmpty[i]).index]
    IN SortedSeq(UnionIndices(indices, 1))

Reindex(frame, idx) ==
    Frame(frame.columns, idx,
          [t \in Range(idx) |-> IF t \in Range(frame.index) THEN frame.rows[t]
                                ELSE NaNRow(frame.columns)])

(***************************************************************************)
(* Resampling onto a fixed grid (pandas resample(freq) upsampling): the    *)
(* grid runs from the floor of the first label to the floor of the last;   *)
(* a grid label takes the row stored at exactly that label, then missing   *)
(* cells are filled by the method.                                         *)
(***************************************************************************)
FloorTo_none(t, freq) == t

FloorTo(t, freq) == (t \div freq) * freq

RECURSIVE GridSeq(_, _, _)
GridSeq(lo, hi, freq) == IF lo > hi THEN <<>> ELSE <<lo>> \o GridSeq(lo + freq, hi, freq)

InterpolateTime(col, grid, g) ==
    LET before == {h \in Range(grid) : h < g /\ col[h] # NaN}
        after == {h \in Range(grid) : h > g /\ col[h] # NaN}
    IN IF col[g] # NaN THEN col[g]
       ELSE IF before = {} THEN NaN
       ELSE IF after = {} THEN col[Max(before)]
       ELSE LET g0 == Max(before)
                g1 == Min(after)
            IN col[g0] + ((col[g1] - col[g0]) * (g - g0)) \div (g1 - g0)

resample_frame(frame, freq, method) ==
    IF IsEmpty(frame) THEN frame
    ELSE LET working == ensure_schema(frame)
             grid == GridSeq(FloorTo(working.index[1], freq),
                             FloorTo(working.index[Len(working.index)], freq), freq)
             asfreq == Reindex(working, grid)
             filled == [t \in Range(grid) |->
                          [c \in Range(REQUIRED_COLUMNS) |->
                              IF method = "interpolate"
                              THEN InterpolateTime([h \in Range(grid) |-> asfreq.rows[h][c]], grid, t)
                              ELSE asfreq.rows[t][c]]]
         IN ensure_schema(Frame(REQUIRED_COLUMNS, grid, filled))

(***************************************************************************)
(* _merge: priority fill of the union timeline and row provenance          *)
(***************************************************************************)
fill_mask_overwrite(current, incoming) == incoming # NaN

fill_mask(current, incoming) == current = NaN /\ incoming # NaN

source_fill_last(row_mask, source) == row_mask

source_fill(row_mask, source) == row_mask /\ source = NaNObj

MergeStep(acc, name, frame, union) ==
    LET aligned == Reindex(frame, union)
        row_mask == [t \in Range(union) |->
                        \E c \in Range(aligned.columns) : aligned.rows[t][c] # Missing(c)]
    IN [result |-> [t \in Range(union) |->
                      [c \in Range(REQUIRED_COLUMNS) |->
                          IF fill_mask(acc.result[t][c], aligned.rows[t][c])
                          THEN aligned.rows[t][c] ELSE acc.result[t][c]]],
        source |-> [t \in Range(union) |->
                      IF source_fill(row_mask[t], acc.source[t]) THEN name ELSE acc.source[t]]]

RECURSIVE MergeLoop(_, _, _, _)
MergeLoop(frames, k, acc, union) ==
    IF k > Len(frames) THEN acc
    ELSE MergeLoop(frames, k + 1, MergeStep(acc, frames[k][1], frames[k][2], union), union)

MergeEmpty_nosource == empty_frame

MergeEmpty ==
    Frame(empty_frame.columns \o <<"source">>, empty_frame.index,
          [t \in {} |-> NaNRow(REQUIRED_COLUMNS)])

_merge(frames) ==
    IF Len(frames) = 0 THEN MergeEmpty
    ELSE LET union == align_frames([i \in DOMAIN frames |-> frames[i][2]])
             start == [result |-> [t \in Range(union) |-> NaNRow(REQUIRED_COLUMNS)],
                       source |-> [t \in Range(union) |-> NaNObj]]
             final == MergeLoop(frames, 1, start, union)
         IN Frame(REQUIRED_COLUMNS \o <<"source">>, union,
                  [t \in Range(union) |->
                      [c \in Range(REQUIRED_COLUMNS) \cup {"source"} |->
                          IF c = "source" THEN final.source[t] ELSE final.result[t][c]]])

(***************************************************************************)
(* Providers as the router sees them: a name, a priority, the nowcast      *)
(* capability, and what one call returns (a frame, or an exception).       *)
(***************************************************************************)
AllColumns == Range(REQUIRED_COLUMNS)

Primary == [name |-> "primary", priority |-> 10, nowcast |-> TRUE, cadence |-> 2,
            supplies |-> AllColumns \ {"ghi_Wm2"}, base |-> 1]

Backup == [name |-> "backup", priority |-> 20, nowcast |-> TRUE, cadence |-> 3,
           supplies |-> AllColumns, base |-> 10]

Archive == [name |-> "archive", priority |-> 20, nowcast |-> FALSE, cadence |-> 12,
            supplies |-> {"temp_C", "ghi_Wm2"}, base |-> 20]

Steps == 0 .. MaxStep

Outcomes == [kind : {"raise"}] \cup [kind : {"ok"}, shape : [Steps -> {"absent", "nan", "data"}]]

\* The frame a provider hands back: one row per step that is not absent,
\* at the provider's cadence (hourly calls: one step per hour).
ProviderFrame(desc, shape, scope) ==
    LET tick == IF scope = "hourly" THEN HourTicks ELSE desc.cadence
        cols == SelectSeq(REQUIRED_COLUMNS, LAMBDA c : c \in desc.supplies)
        present == {k \in Steps : shape[k] # "absent"}
        idx == SortedSeq({k * tick : k \in present})
    IN Frame(cols, idx,
             [t \in Range(idx) |->
                 [c \in Range(cols) |->
                     IF shape[t \div tick] = "data" THEN desc.base + (t \div tick) ELSE NaN]])

RECURSIVE SortByPriority(_)
SortByPriority(seq) ==
    IF Len(seq) = 0 THEN <<>>
    ELSE LET rest == SortByPriority(SubSeq(seq, 1, Len(seq) - 1))
             x == seq[Len(seq)]
             le == SelectSeq(rest, LAMBDA p : p.priority <= x.priority)
             gt == SelectSeq(rest, LAMBDA p : p.priority > x.priority)
         IN le \o <<x>> \o gt

WeatherRouter_init_unsorted(srcs) == srcs

WeatherRouter_init(srcs) == SortByPriority(srcs)

(***************************************************************************)
(* WeatherRouter.get_hourly / get_nowcast                                  *)
(***************************************************************************)
ProviderFailed_abort(acc) == [acc EXCEPT !.raised = TRUE]

ProviderFailed(acc) == acc

HourlyStep(acc0, provider, outcome, start_ts, end_ts) ==
    LET acc == [acc0 EXCEPT !.called = Append(@, provider.name)]
    IN IF outcome[provider.name].kind = "raise" THEN ProviderFailed(acc)
       ELSE LET forecast == ProviderFrame(provider, outcome[provider.name].shape, "hourly")
                df == Loc(ensure_schema(forecast), start_ts, end_ts)
            IN IF IsEmpty(df) THEN acc
               ELSE [acc EXCEPT !.frames = Append(@, <<provider.name, ensure_schema(df)>>)]

RECURSIVE HourlyLoop(_, _, _, _, _, _)
HourlyLoop(acc, srcs, k, outcome, start_ts, end_ts) ==
    IF k > Len(srcs) \/ acc.raised THEN acc
    ELSE HourlyLoop(HourlyStep(acc, srcs[k], outcome, start_ts, end_ts),
                    srcs, k + 1, outcome, start_ts, end_ts)

Router_get_hourly(srcs, outcome, start_ts, end_ts) ==
    LET acc == HourlyLoop([frames |-> <<>>, raised |-> FALSE, called |-> <<>>], srcs, 1, outcome, start_ts, end_ts)
        merged == _merge(acc.frames)
    IN IF acc.raised THEN [raised |-> TRUE, called |-> acc.called, merged |-> MergeEmpty, frame |-> MergeEmpty]
       ELSE IF IsEmpty(merged) THEN [raised |-> FALSE, called |-> acc.called, merged |-> merged, frame |-> merged]
       ELSE [raised |-> FALSE, called |-> acc.called, merged |-> merged,
             frame |-> Loc(merged, start_ts, end_ts)]

supports_nowcast_any(provider) == TRUE

supports_nowcast(provider) == provider.nowcast

NowcastStep(acc0, provider, outcome) ==
    LET acc == [acc0 EXCEPT !.called = Append(@, provider.name)]
    IN IF ~supports_nowcast(provider) THEN acc0
       ELSE IF outcome[provider.name].kind = "raise" THEN ProviderFailed(acc)
       ELSE LET forecast == ProviderFrame(provider, outcome[provider.name].shape, "nowcast")
                df == ensure_schema(forecast)
            IN IF IsEmpty(df) THEN acc
               ELSE [acc EXCEPT !.frames = Append(@, <<provider.name, df>>)]

RECURSIVE NowcastLoop(_, _, _, _)
NowcastLoop(acc, srcs, k, outcome) ==
    IF k > Len(srcs) \/ acc.raised THEN acc
    ELSE NowcastLoop(NowcastStep(acc, srcs[k], outcome), srcs, k + 1, outcome)

PadSource_nearest(merged, g) ==
    LET near == CHOOSE t \in Range(merged.index) :
                    \A u \in Range(merged.index) :
                        (IF t > g THEN t - g ELSE g - t) <= (IF u > g THEN u - g ELSE g - u)
    IN merged.rows[near]["source"]

PadSource(merged, g) ==
    LET before == {t \in Range(merged.index) : t <= g}
    IN IF before = {} THEN NaNObj ELSE merged.rows[Max(before)]["source"]

Router_get_nowcast(srcs, outcome) ==
    LET acc == NowcastLoop([frames |-> <<>>, raised |-> FALSE, called |-> <<>>], srcs, 1, outcome)
        merged == _merge(acc.frames)
        numeric == Frame(REQUIRED_COLUMNS, merged.index,
                         [t \in Range(merged.index) |->
                             [c \in Range(REQUIRED_COLUMNS) |-> merged.rows[t][c]]])
        resampled == resample_frame(numeric, NowcastFreq, "interpolate")
    IN IF acc.raised THEN [raised |-> TRUE, called |-> acc.called, merged |-> MergeEmpty, frame |-> MergeEmpty]
       ELSE IF IsEmpty(merged) THEN [raised |-> FALSE, called |-> acc.called, merged |-> merged, frame |-> merged]
       ELSE [raised |-> FALSE, called |-> acc.called, merged |-> merged,
             frame |-> Frame(resampled.columns \o <<"source">>, resampled.index,
                             [g \in Range(resampled.index) |->
                                 [c \in Range(REQUIRED_COLUMNS) \cup {"source"} |->
                                     IF c = "source" THEN PadSource(merged, g)
                                     ELSE resampled.rows[g][c]]])]

(***************************************************************************)
(* WeatherCache: the sqlite table weather_cache, keyed by                  *)
(* (provider, scope, cache_key), holding (expires_at, payload).            *)
(***************************************************************************)
Some(f) == [some |-> TRUE, value |-> f]

None == [some |-> FALSE, value |-> empty_frame]

\* json.dumps(key, sort_keys=True): the items of the dict in key order, so
\* that equal dicts give equal strings whatever their insertion order.
json_dumps(key) == {<<f, key[f]>> : f \in DOMAIN key}

CacheKey(provider, scope, key) ==
    [provider |-> provider, scope |-> scope, cache_key |-> json_dumps(key)]

to_pickle(frame) == [fmt |-> "pickle", obj |-> frame]

Garbage == [fmt |-> "garbage", obj |-> empty_frame]

read_pickle(bytes) ==
    IF bytes.fmt = "pickle" THEN [raised |-> FALSE, value |-> bytes.obj]
    ELSE [raised |-> TRUE, value |-> empty_frame]

Delete(st, key) == [k \in DOMAIN st \ {key} |-> st[k]]

Replace(st, key, row) == [k \in DOMAIN st \cup {key} |-> IF k = key THEN row ELSE st[k]]

Expired_inclusive(expires_at, t) == expires_at <= t

Expired(expires_at, t) == expires_at < t

Cache_get(st, ok, key, t) ==
    IF ~ok THEN [raised |-> TRUE, ret |-> None, store |-> st]
    ELSE IF key \notin DOMAIN st THEN [raised |-> FALSE, ret |-> None, store |-> st]
    ELSE IF Expired(st[key].expires_at, t)
         THEN [raised |-> FALSE, ret |-> None, store |-> Delete(st, key)]
    ELSE LET loaded == read_pickle(st[key].payload)
         IN IF loaded.raised THEN [raised |-> TRUE, ret |-> None, store |-> st]
            ELSE [raised |-> FALSE, ret |-> Some(loaded.value), store |-> st]

Cache_set(st, ok, key, frame, ttl_seconds, t) ==
    IF ~ok THEN [raised |-> TRUE, store |-> st]
    ELSE [raised |-> FALSE,
          store |-> Replace(st, key, [expires_at |-> t + ttl_seconds, payload |-> to_pickle(frame)])]

(***************************************************************************)
(* Provider.fetch_with_cache.  fetch is what the fetcher does if it is     *)
(* called (returns data or raises); the fetcher takes elapsed ticks.       *)
(***************************************************************************)
ShouldStore_never(ttl_seconds, data) == FALSE

ShouldStore(ttl_seconds, data) == ttl_seconds \notin {0, NaN} /\ ~IsEmpty(data)

UseCache_never(ttl_seconds) == FALSE

\* if ttl_seconds: false for 0 and for None, the unset TTL, written NaN here.
UseCache(ttl_seconds) == ttl_seconds \notin {0, NaN}

fetch_with_cache(st, ok, key, ttl_seconds, fetch, t, elapsed) ==
    LET base == [raised |-> FALSE, ret |-> empty_frame, store |-> st, key |-> key,
                 lookup |-> UseCache(ttl_seconds), hit |-> FALSE, fetched |-> FALSE,
                 wrote |-> FALSE, setTime |-> t, cacheFault |-> FALSE]
        got == IF UseCache(ttl_seconds) THEN Cache_get(st, ok, key, t)
               ELSE [raised |-> FALSE, ret |-> None, store |-> st]
    IN IF got.raised THEN [base EXCEPT !.raised = TRUE, !.cacheFault = TRUE]
       ELSE IF got.ret.some THEN [base EXCEPT !.ret = got.ret.value, !.hit = TRUE]
       ELSE IF fetch.kind = "raise"
            THEN [base EXCEPT !.raised = TRUE, !.fetched = TRUE, !.store = got.store]
       ELSE IF ~ShouldStore(ttl_seconds, fetch.data)
            THEN [base EXCEPT !.ret = fetch.data, !.fetched = TRUE, !.store = got.store]
       ELSE LET put == Cache_set(got.store, ok, key, fetch.data, ttl_seconds, t + elapsed)
            IN [base EXCEPT !.raised = put.raised, !.ret = fetch.data, !.fetched = TRUE,
                            !.store = put.store, !.wrote = ~put.raised,
                            !.setTime = t + elapsed, !.cacheFault = put.raised]

(***************************************************************************)
(* The four provider implementations.  A response is what the remote       *)
(* service answers during one call: a payload (rows at the service's       *)
(* cadence, possibly none), a transient error or an HTTP 401/403.          *)
(***************************************************************************)
Versions == {1, 2}

Responses ==
    [kind : {"ok"}, version : Versions, rows : {"full", "none"}]
        \cup [kind : {"error", "auth"}, version : {1}, rows : {"none"}]

Location == [lat |-> 44, lon |-> 26]

QuarterTicks == 3
ForecastTicks == 36
FallbackTtlHourly == 6
FallbackTtlOpenMeteo == 12
FallbackTtlNowcast == 3

\* The normalized frame of a payload: one row per step of the service's
\* cadence inside [lo, hi], every canonical column supplied.
NormalizedRows(resp, tick, lo, hi) ==
    LET stamps == IF resp.kind = "ok" /\ resp.rows = "full"
                  THEN {k * tick : k \in Steps} \cap (lo .. hi) ELSE {}
        idx == SortedSeq(stamps)
    IN Frame(REQUIRED_COLUMNS, idx,
             [t \in Range(idx) |->
                 [c \in Range(REQUIRED_COLUMNS) |-> 100 * resp.version + (t \div tick)]])

Horizon == MaxStep * ForecastTicks

normalize_openmeteo(payload) == NormalizedRows(payload, HourTicks, 0, Horizon)

normalize_openweather(payload, mode) ==
    IF mode = "forecast" THEN NormalizedRows(payload, ForecastTicks, 0, Horizon)
    ELSE NormalizedRows(payload, HourTicks, 0, Horizon)

normalize_tomorrow(payload, tick, lo, hi) == NormalizedRows(payload, tick, lo, hi)

ttl_for_or_fallback(p, scope, fallback) ==
    IF scope \in DOMAIN p.ttl_scopes /\ p.ttl_scopes[scope] \notin {0, NaN}
    THEN p.ttl_scopes[scope] ELSE fallback

ttl_for(p, scope, fallback) ==
    IF scope \in DOMAIN p.ttl_scopes THEN p.ttl_scopes[scope] ELSE fallback

NewProviderState == [disabled |-> FALSE, auth_logged |-> FALSE, force_forecast_only |-> FALSE]

EmptyPayload == [kind |-> "ok", version |-> 1, rows |-> "none"]

\* What a provider call hands back to the action that made it.
CallResult(fc, ret, raised, state, full) ==
    [raised |-> raised, ret |-> ret, data |-> fc.ret, store |-> fc.store, key |-> fc.key,
     lookup |-> fc.lookup, hit |-> fc.hit, fetched |-> fc.fetched, wrote |-> fc.wrote,
     setTime |-> fc.setTime, cacheFault |-> fc.cacheFault, pst |-> state, full |-> full]

NoFetch(st) ==
    [raised |-> FALSE, ret |-> empty_frame, store |-> st,
     key |-> CacheKey("", "", [none |-> 0]),
     lookup |-> FALSE, hit |-> FALSE, fetched |-> FALSE, wrote |-> FALSE, setTime |-> 0,
     cacheFault |-> FALSE]

(***************************************************************************)
(* The providers' request routines, one HTTP exchange at a time.  h is the *)
(* position of the call in progress: the endpoint being tried (pc), the    *)
(* attempt number, and per endpoint the statuses answered so far and the   *)
(* sleeps taken; passes lists the retry loops the call entered.            *)
(***************************************************************************)
Endpoints == {"onecall", "forecast", "current", "openmeteo", "tomorrow", "rainviewer"}

IsAuthStatus_any(status) == status >= 400

IsAuthStatus(status) == status \in {401, 403}

NoRequest ==
    [op |-> "none", pc |-> "done", attempt |-> 0,
     answers |-> [e \in Endpoints |-> <<>>], waits |-> [e \in Endpoints |-> <<>>],
     passes |-> <<>>, outcome |-> "none", mode |-> "none", error |-> "none",
     entry |-> NewProviderState]

\* self._force_forecast_only = self.api_mode == "forecast"
InitialState(p) == [NewProviderState EXCEPT !.force_forecast_only = (p.api_mode = "forecast")]

\* The call returns (payload / empty) or raises.
Finish(h, state, outcome, mode, error) ==
    [h |-> [h EXCEPT !.pc = "done", !.outcome = outcome, !.mode = mode, !.error = error],
     pst |-> state]

RECURSIVE EnterLoop(_, _, _, _)
OneCallFailed_nofallback(p, state, h, error) == Finish(h, state, "raise", "onecall", error)

\* An exception leaves _request_onecall: api_mode "onecall" lets it
\* propagate, "auto" latches the forecast API and tries it in the same call.
OneCallFailed(p, state, h, error) ==
    IF p.api_mode = "auto"
    THEN EnterLoop(p, [state EXCEPT !.force_forecast_only = TRUE], h, "forecast")
    ELSE Finish(h, state, "raise", "onecall", error)

\* The for-loop over attempts ran out: the code after the loop.
LoopExhausted(p, state, h, e) ==
    IF e = "onecall" THEN OneCallFailed(p, state, h, "runtime")
    ELSE Finish(h, state, "raise", IF e \in {"forecast", "current"} THEN "forecast" ELSE "none",
                "runtime")

\* for attempt in range(1, self.retries + 1) against endpoint e.
EnterLoop(p, state, h, e) ==
    LET h1 == [h EXCEPT !.passes = Append(@, e), !.pc = e, !.attempt = 1]
    IN IF p.retries < 1 THEN LoopExhausted(p, state, h1, e)
       ELSE [h |-> h1, pst |-> state]

Retry_flat(p, state, h, e) ==
    LET h1 == [h EXCEPT !.waits[e] = Append(@, p.backoff), !.attempt = h.attempt + 1]
    IN IF h.attempt + 1 > p.retries THEN LoopExhausted(p, state, h1, e)
       ELSE [h |-> h1, pst |-> state]

\* A failed attempt taken as transient: time.sleep(self.backoff * attempt),
\* then the next attempt if there is one.
Retry(p, state, h, e) ==
    LET h1 == [h EXCEPT !.waits[e] = Append(@, p.backoff * h.attempt),
                        !.attempt = h.attempt + 1]
    IN IF h.attempt + 1 > p.retries THEN LoopExhausted(p, state, h1, e)
       ELSE [h |-> h1, pst |-> state]

\* bool(requests.Response) is Response.ok, which is False for every status
\* raise_for_status raises on.
ResponseTruthy(status) == status < 400

\* status_code = exc.response.status_code if exc.response else None
Tomorrow_status_code(status) == IF ResponseTruthy(status) THEN status ELSE 0

\* OpenWeatherProvider._status_code: int(response.status_code)
OpenWeather_status_code(status) == status

\* One request to endpoint h.pc, answered with status.
Exchange(p, state, h, status) ==
    LET e == h.pc
        h1 == [h EXCEPT !.answers[e] = Append(@, status)]
    IN CASE e = "onecall" ->
              IF status = 200 THEN Finish(h1, state, "payload", "onecall", "none")
              ELSE IF IsAuthStatus(OpenWeather_status_code(status))
                   THEN OneCallFailed(p, state, h1, "auth")
              ELSE Retry(p, state, h1, e)
         [] e \in {"forecast", "current"} ->
              IF status = 200
              THEN IF e = "forecast" THEN EnterLoop(p, state, h1, "current")
                   ELSE Finish(h1, state, "payload", "forecast", "none")
              ELSE IF p.skip_on_auth_failure /\ IsAuthStatus(OpenWeather_status_code(status))
                   THEN Finish(h1, [state EXCEPT !.auth_logged = TRUE, !.disabled = TRUE],
                               "empty", "forecast", "none")
              ELSE Retry(p, state, h1, e)
         [] e = "tomorrow" ->
              IF status = 200 THEN Finish(h1, state, "payload", "none", "none")
              ELSE IF IsAuthStatus(Tomorrow_status_code(status)) /\ p.skip_on_auth_failure
                   THEN Finish(h1,
                               IF state.auth_logged THEN state
                               ELSE [state EXCEPT !.auth_logged = TRUE, !.disabled = TRUE],
                               "empty", "none", "none")
              ELSE Retry(p, state, h1, e)
         [] OTHER ->
              IF status = 200 THEN Finish(h1, state, "payload", "none", "none")
              ELSE Retry(p, state, h1, e)

OpenWeather_request_start_unlatched(p, state, h) ==
    IF state.disabled THEN Finish(h, state, "empty", "none", "none")
    ELSE IF p.api_mode = "forecast" THEN EnterLoop(p, state, h, "forecast")
    ELSE EnterLoop(p, state, h, "onecall")

\* OpenWeatherProvider._request up to its first HTTP request.
OpenWeather_request_start(p, state, h) ==
    IF state.disabled THEN Finish(h, state, "empty", "none", "none")
    ELSE IF state.force_forecast_only \/ p.api_mode = "forecast"
         THEN EnterLoop(p, state, h, "forecast")
    ELSE EnterLoop(p, state, h, "onecall")

NewCall(op, state) == [NoRequest EXCEPT !.op = op, !.pc = "start", !.entry = state]

\* get_hourly up to its first HTTP request (the cache aside).
StartHourly(p, state) ==
    LET h == NewCall("get_hourly", state)
    IN CASE p.name = "openweather" ->
              IF state.disabled THEN Finish(h, state, "empty", "none", "none")
              ELSE OpenWeather_request_start(p, state, h)
         [] p.name = "tomorrow_io" ->
              IF state.disabled THEN Finish(h, state, "empty", "none", "none")
              ELSE EnterLoop(p, state, h, "tomorrow")
         [] p.name = "openmeteo_ecmwf" -> EnterLoop(p, state, h, "openmeteo")
         [] OTHER -> Finish(h, state, "empty", "none", "none")

\* get_nowcast up to its first HTTP request.
StartNowcast(p, state) ==
    LET h == NewCall("get_nowcast", state)
    IN CASE p.name = "openweather" -> Finish(h, state, "raise", "none", "notimplemented")
         [] p.name = "tomorrow_io" ->
              IF state.disabled THEN Finish(h, state, "empty", "none", "none")
              ELSE EnterLoop(p, state, h, "tomorrow")
         [] OTHER -> Finish(h, state, "raise", "none", "type")

\* A whole call against a service that answers every request alike.
RECURSIVE RunCall(_, _, _)
RunCall(p, r, status) ==
    IF r.h.pc = "done" THEN r ELSE RunCall(p, Exchange(p, r.pst, r.h, status), status)

\* What a request routine hands back when every request of the call is
\* answered with resp.
Answered(p, r0, resp) ==
    LET r == RunCall(p, r0, IF resp.kind = "ok" THEN 200 ELSE IF resp.kind = "auth" THEN 401 ELSE 500)
    IN [raised |-> r.h.outcome = "raise", mode |-> r.h.mode,
        payload |-> IF r.h.outcome = "payload" THEN resp ELSE EmptyPayload,
        pst |-> r.pst]

\* ---- Open-Meteo ----
OpenMeteo_request(p, resp) ==
    Answered(p, EnterLoop(p, NewProviderState, NewCall("get_hourly", NewProviderState),
                          "openmeteo"), resp)

OpenMeteo_get_hourly(p, state, st, ok, resp, start_ts, end_ts, t, elapsed) ==
    LET req == OpenMeteo_request(p, resp)
        full == normalize_openmeteo(req.payload)
        fetch == IF req.raised THEN [kind |-> "raise", data |-> empty_frame]
                 ELSE [kind |-> "ok", data |-> Loc(full, start_ts, end_ts)]
        fc == fetch_with_cache(st, ok,
                               CacheKey(p.name, "hourly",
                                        [lat |-> Location.lat, lon |-> Location.lon,
                                         models |-> <<"ecmwf">>]),
                               ttl_for(p, "hourly", FallbackTtlOpenMeteo), fetch, t, elapsed)
    IN CallResult(fc, Loc(ensure_schema(fc.ret), start_ts, end_ts), fc.raised, state, full)

\* pd.Timestamp.utcnow() is already timezone-aware, so tz_localize("UTC")
\* raises TypeError before anything else happens.
OpenMeteo_get_nowcast(p, state, st) ==
    CallResult(NoFetch(st), empty_frame, TRUE, state, empty_frame)

\* ---- Tomorrow.io ----
Tomorrow_request(p, state, resp) ==
    Answered(p, EnterLoop(p, state, NewCall("get_hourly", state), "tomorrow"), resp)

Tomorrow_fetch(p, state, st, ok, resp, scope, timestep, tick, fallback, lo, hi, t, elapsed) ==
    LET req == Tomorrow_request(p, state, resp)
        full == normalize_tomorrow(req.payload, tick, lo, hi)
        fetch == IF req.raised THEN [kind |-> "raise", data |-> empty_frame]
                 ELSE [kind |-> "ok", data |-> Loc(full, lo, hi)]
        fc == fetch_with_cache(st, ok,
                               CacheKey(p.name, scope,
                                        [lat |-> Location.lat, lon |-> Location.lon,
                                         timestep |-> timestep]),
                               ttl_for(p, scope, fallback), fetch, t, elapsed)
    IN [fc |-> fc, pst |-> IF fc.fetched THEN req.pst ELSE state, full |-> full]

Tomorrow_get_hourly(p, state, st, ok, resp, start_ts, end_ts, t, elapsed) ==
    IF state.disabled THEN CallResult(NoFetch(st), empty_frame, FALSE, state, empty_frame)
    ELSE LET f == Tomorrow_fetch(p, state, st, ok, resp, "hourly", "1h", HourTicks,
                                 FallbackTtlHourly, start_ts, end_ts, t, elapsed)
         IN CallResult(f.fc, Loc(ensure_schema(f.fc.ret), start_ts, end_ts),
                       f.fc.raised, f.pst, f.full)

Tomorrow_get_nowcast(p, state, st, ok, resp, next_hours, t, elapsed) ==
    IF state.disabled THEN CallResult(NoFetch(st), empty_frame, FALSE, state, empty_frame)
    ELSE LET lo == t - QuarterTicks
             hi == t + next_hours * HourTicks
             f == Tomorrow_fetch(p, state, st, ok, resp, "nowcast", "15m", QuarterTicks,
                                 FallbackTtlNowcast, lo, hi, t, elapsed)
             window == Loc(ensure_schema(f.fc.ret), lo, hi)
         IN CallResult(f.fc, resample_frame(window, NowcastFreq, "interpolate"),
                       f.fc.raised, f.pst, f.full)

\* ---- OpenWeather (api_mode "auto") ----
OpenWeather_request_forecast(p, state, resp) ==
    Answered(p, EnterLoop(p, state, NewCall("get_hourly", state), "forecast"), resp)

OpenWeather_request(p, state, resp) ==
    Answered(p, OpenWeather_request_start(p, state, NewCall("get_hourly", state)), resp)

OpenWeather_get_hourly(p, state, st, ok, resp, start_ts, end_ts, t, elapsed) ==
    IF state.disabled THEN CallResult(NoFetch(st), empty_frame, FALSE, state, empty_frame)
    ELSE LET req == OpenWeather_request(p, state, resp)
             normal == normalize_openweather(req.payload, req.mode)
             full == IF req.mode = "none" \/ IsEmpty(normal) THEN normal
                     ELSE IF req.mode = "forecast"
                          THEN resample_frame(normal, HourTicks, "interpolate")
                     ELSE normal
             fetch == IF req.raised THEN [kind |-> "raise", data |-> empty_frame]
                      ELSE IF req.mode = "none" THEN [kind |-> "ok", data |-> empty_frame]
                      ELSE IF IsEmpty(normal) THEN [kind |-> "ok", data |-> normal]
                      ELSE [kind |-> "ok", data |-> Loc(full, start_ts, end_ts)]
             fc == fetch_with_cache(st, ok,
                                    CacheKey(p.name, "hourly",
                                             [lat |-> Location.lat, lon |-> Location.lon]),
                                    ttl_for(p, "hourly", FallbackTtlHourly), fetch, t, elapsed)
         IN CallResult(fc, Loc(ensure_schema(fc.ret), start_ts, end_ts), fc.raised,
                       IF fc.fetched THEN req.pst ELSE state, full)

\* Provider.get_nowcast of the base class: NotImplementedError.
OpenWeather_get_nowcast(p, state, st) ==
    CallResult(NoFetch(st), empty_frame, TRUE, state, empty_frame)

\* ---- Rainviewer ----
Rainviewer_get_hourly(p, state, st) ==
    CallResult(NoFetch(st), empty_frame, FALSE, state, empty_frame)

\* pd.Timestamp.utcnow().tz_localize("UTC") raises TypeError (see Open-Meteo).
Rainviewer_get_nowcast(p, state, st) ==
    CallResult(NoFetch(st), empty_frame, TRUE, state, empty_frame)

Provider_get_hourly(p, state, st, ok, resp, start_ts, end_ts, t, elapsed) ==
    CASE p.name = "openweather" ->
            OpenWeather_get_hourly(p, state, st, ok, resp, start_ts, end_ts, t, elapsed)
      [] p.name = "openmeteo_ecmwf" ->
            OpenMeteo_get_hourly(p, state, st, ok, resp, start_ts, end_ts, t, elapsed)
      [] p.name = "tomorrow_io" ->
            Tomorrow_get_hourly(p, state, st, ok, resp, start_ts, end_ts, t, elapsed)
      [] OTHER -> Rainviewer_get_hourly(p, state, st)

Provider_get_nowcast(p, state, st, ok, resp, next_hours, t, elapsed) ==
    CASE p.name = "openweather" -> OpenWeather_get_nowcast(p, state, st)
      [] p.name = "openmeteo_ecmwf" -> OpenMeteo_get_nowcast(p, state, st)
      [] p.name = "tomorrow_io" ->
            Tomorrow_get_nowcast(p, state, st, ok, resp, next_hours, t, elapsed)
      [] OTHER -> Rainviewer_get_nowcast(p, state, st)

\* The scopes each implementation registers a TTL for (ttl_scopes).
TtlScopes(name, ttl) ==
    CASE name = "openweather" -> [s \in {"hourly"} |-> ttl]
      [] name = "openmeteo_ecmwf" -> [s \in {"hourly"} |-> ttl]
      [] name = "tomorrow_io" -> [s \in {"hourly", "nowcast"} |-> ttl]
      [] OTHER -> [s \in {"nowcast"} |-> ttl]

NewProviderWith(name, ttl, skip, api_mode, retries, backoff) ==
    [name |-> name, ttl_scopes |-> TtlScopes(name, ttl), skip_on_auth_failure |-> skip,
     api_mode |-> api_mode, retries |-> retries, backoff |-> backoff]

\* The constructors' defaults: api_mode "auto", retries 3 (Rainviewer 2), backoff 1.
NewProvider(name, ttl, skip) ==
    NewProviderWith(name, ttl, skip, "auto", IF name = "rainviewer_nowcast" THEN 2 ELSE 3, 1)

(***************************************************************************)
(* The normalizers.  A payload is what a service answered: malformed, or a *)
(* list of entries, each with a timestamp (possibly unusable) and the      *)
(* values of some of the service's fields.  A normalizer extracts one row  *)
(* dict per usable entry and _build_frame turns the rows into a frame.     *)
(***************************************************************************)
\* The payload key a normalizer reads for a canonical column ("none": the
\* normalizer writes NaN whatever the payload holds).
FieldOf(fn, c) ==
    CASE fn = "openweather_onecall" ->
           [temp_C |-> "temp", wind_ms |-> "wind_speed", wind_deg |-> "wind_deg",
            clouds_pct |-> "clouds", humidity |-> "humidity", uvi |-> "uvi",
            ghi_Wm2 |-> "none"][c]
      [] fn = "openweather_forecast" ->
           [temp_C |-> "main.temp", wind_ms |-> "wind.speed", wind_deg |-> "wind.deg",
            clouds_pct |-> "clouds.all", humidity |-> "main.humidity", uvi |-> "none",
            ghi_Wm2 |-> "none"][c]
      [] fn = "openmeteo" ->
           [temp_C |-> "temperature_2m", wind_ms |-> "windspeed_10m",
            wind_deg |-> "winddirection_10m", clouds_pct |-> "cloudcover",
            humidity |-> "relativehumidity_2m", uvi |-> "uv_index",
            ghi_Wm2 |-> "shortwave_radiation"][c]
      [] fn = "tomorrow" ->
           [temp_C |-> "temperature", wind_ms |-> "windSpeed", wind_deg |-> "windDirection",
            clouds_pct |-> "cloudCover", humidity |-> "humidity", uvi |-> "uvIndex",
            ghi_Wm2 |-> "solarGHI"][c]

\* An entry of the payload.  kind: a dict, a dict whose nested block of
\* values is null, or a value that is not a dict at all.  dt: a timestamp
\* of its own, the timestamp the first entry has ("same": overlapping
\* sections), no timestamp, or one that cannot be parsed.  A dict supplies
\* none of the fields, the temperature next to a field no normalizer reads,
\* or every field of the service.
Entries(fn) ==
    [kind : {"dict"}, dt : {"ok", "same", "missing", "garbled"},
     supplied : {{}, {FieldOf(fn, "temp_C"), "pressure"},
                 ({FieldOf(fn, c) : c \in AllColumns} \ {"none"}) \cup {"ghi"}}]
        \cup [kind : {"nullblock", "scalar"}, dt : {"ok"}, supplied : {{}}]

\* shape: the payload is not a dict ("notdict"), its section of entries has
\* the wrong container type ("container"), or it is well formed.
Payloads(fn) ==
    [shape : {"notdict", "container"}, units : {"none"}, entries : {<<>>}]
        \cup [shape : {"ok"}, units : (IF fn = "openmeteo" THEN {"km/h", "m/s"} ELSE {"none"}),
              entries : UNION {[1 .. n -> Entries(fn)] : n \in 0 .. MaxEntries}]

\* The value the service reports in entry k.
RawValue(k) == 36 * k

kmh_to_ms(value) == (value * 10) \div 36

_convert_windspeed(units, value) == IF units = "km/h" THEN kmh_to_ms(value) ELSE value

\* What a normalizer does with an entry: appends a row, skips the entry, or
\* raises an exception it does not catch.
Disposition(fn, e) ==
    CASE e.kind = "scalar" -> IF fn = "openweather_onecall" THEN "raise" ELSE "skip"
      [] e.kind = "nullblock" -> IF fn = "openweather_forecast" THEN "raise" ELSE "row"
      [] e.kind = "dict" /\ e.dt = "missing" -> IF fn = "openmeteo" THEN "row" ELSE "skip"
      [] e.kind = "dict" /\ e.dt = "garbled" ->
            IF fn \in {"openweather_onecall", "openweather_forecast"} THEN "raise" ELSE "skip"
      [] OTHER -> "row"

\* The row dict of entry k: every canonical key, None where the entry
\* lacks the field; the timestamp is NaT (written NaN) when pd.to_datetime
\* was handed None.  origin remembers the entry.
RowOf(fn, payload, k) ==
    [timestamp |-> CASE payload.entries[k].dt = "missing" -> NaN
                     [] payload.entries[k].dt = "same" -> 0
                     [] OTHER -> (k - 1) * HourTicks,
     origin |-> k,
     cells |-> [c \in AllColumns |->
                  IF FieldOf(fn, c) \notin payload.entries[k].supplied THEN NaN
                  ELSE IF fn = "openmeteo" /\ c = "wind_ms"
                       THEN _convert_windspeed(payload.units, RawValue(k))
                       ELSE RawValue(k)]]

ExtractRows(fn, payload) ==
    LET usable == SelectSeq([k \in DOMAIN payload.entries |-> k],
                            LAMBDA k : Disposition(fn, payload.entries[k]) = "row")
    IN [raised |-> \E k \in DOMAIN payload.entries :
                      Disposition(fn, payload.entries[k]) = "raise",
        rows |-> [i \in DOMAIN usable |-> RowOf(fn, payload, usable[i])]]

\* The frames _build_frame can return for the rows, rows by position:
\* sort_index leaves an index that is already sorted as it is and otherwise
\* sorts it with an unstable sort (NaT last), so rows of equal timestamp
\* come out in any order.
_build_frame(rows) ==
    IF Len(rows) = 0 THEN {[frame |-> _build_frame_empty, origin |-> <<>>]}
    ELSE LET n == Len(rows)
             key(i) == IF rows[i].timestamp = NaN THEN Horizon + 1 ELSE rows[i].timestamp
             sorted == \A i \in 1 .. n - 1 :
                          rows[i + 1].timestamp # NaN /\ key(i) <= key(i + 1)
             orders == {p \in [1 .. n -> 1 .. n] :
                          /\ \A i, j \in 1 .. n : i # j => p[i] # p[j]
                          /\ IF sorted /\ rows[1].timestamp # NaN
                             THEN \A i \in 1 .. n : p[i] = i
                             ELSE \A i, j \in 1 .. n : i < j => key(p[i]) <= key(p[j])}
         IN {[frame |-> Frame(REQUIRED_COLUMNS, [i \in 1 .. n |-> rows[p[i]].timestamp],
                              [i \in 1 .. n |->
                                  [c \in Range(REQUIRED_COLUMNS) |->
                                      IF c \in DOMAIN rows[p[i]].cells
                                      THEN rows[p[i]].cells[c] ELSE NaN]]),
              origin |-> [i \in 1 .. n |-> rows[p[i]].origin]] : p \in orders}

\* The outcomes of a normalizer: it raises, or returns one of the frames
\* _build_frame can build; the forecast normalizer keeps the last row of
\* each timestamp.
Normalize(fn, payload) ==
    LET x == ExtractRows(fn, payload)
        failed == [raised |-> TRUE, frame |-> _build_frame_empty, origin |-> <<>>]
        last(b) == SelectSeq([i \in DOMAIN b.origin |-> i],
                             LAMBDA i : \A j \in i + 1 .. Len(b.origin) :
                                           b.frame.index[j] # b.frame.index[i])
        deduplicated(b) ==
            [frame |-> Frame(b.frame.columns, [i \in DOMAIN last(b) |-> b.frame.index[last(b)[i]]],
                             [i \in DOMAIN last(b) |-> b.frame.rows[last(b)[i]]]),
             origin |-> [i \in DOMAIN last(b) |-> b.origin[last(b)[i]]]]
        returned(b) == [raised |-> FALSE, frame |-> b.frame, origin |-> b.origin]
    IN IF payload.shape = "notdict" THEN {returned(b) : b \in _build_frame(<<>>)}
       ELSE IF payload.shape = "container"
       THEN IF fn \in {"openweather_onecall", "openweather_forecast"} THEN {failed}
            ELSE {returned(b) : b \in _build_frame(<<>>)}
       ELSE IF x.raised THEN {failed}
       ELSE {returned(IF fn = "openweather_forecast" THEN deduplicated(b) ELSE b) :
                b \in _build_frame(x.rows)}


\* The exit status of the CLI: SystemExit with a message (status 1) when no
\* provider is configured, the status of an uncaught exception when the
\* router raised, and otherwise 0 after write_output, whatever the frame.
main(srcs, result) ==
    IF Len(srcs) = 0 THEN 1
    ELSE IF result.raised THEN 1
    ELSE 0

NoPayload == [fn |-> "none"]

(***************************************************************************)
(* Router state machine: one request at a time                             *)
(***************************************************************************)
Names(srcs) == {srcs[i].name : i \in DOMAIN srcs}

NoCall == [op |-> "none"]

NoResult == [raised |-> FALSE, called |-> <<>>, merged |-> MergeEmpty, frame |-> MergeEmpty]

EmptyTable == [k \in {} |-> 0]

CacheIdle ==
    /\ now = 0
    /\ store = EmptyTable
    /\ storeOk = TRUE
    /\ cret = NoCall
    /\ written = EmptyTable
    /\ pst = NewProviderState
    /\ http = NoRequest

RouterInit ==
    /\ sources \in {WeatherRouter_init(s) :
                       s \in {s \in UNION {[1 .. n -> {Primary, Backup, Archive}] : n \in 0 .. MaxSources} :
                                 \A i, j \in DOMAIN s : i # j => s[i].name # s[j].name}}
    /\ rpc = "idle"
    /\ rcall = NoCall
    /\ rresult = NoResult
    /\ norm = NoPayload
    /\ callers = <<>>
    /\ CacheIdle
    /\ prov = NewProvider("openweather", Ttl, TRUE)

get_hourly ==
    /\ rpc = "idle"
    /\ \E w \in {w \in {0, HourTicks} \X {(MaxStep - 1) * HourTicks, MaxStep * HourTicks} :
                    w[1] <= w[2]}, outcome \in [Names(sources) -> Outcomes] :
          /\ rcall' = [op |-> "get_hourly", start |-> w[1], end |-> w[2], outcome |-> outcome]
          /\ rresult' = Router_get_hourly(sources, outcome, w[1], w[2])
    /\ rpc' = "done"
    /\ UNCHANGED <<sources, norm, callers, cvars>>

get_nowcast ==
    /\ rpc = "idle"
    /\ \E outcome \in [Names(sources) -> Outcomes] :
          /\ rcall' = [op |-> "get_nowcast", outcome |-> outcome]
          /\ rresult' = Router_get_nowcast(sources, outcome)
    /\ rpc' = "done"
    /\ UNCHANGED <<sources, norm, callers, cvars>>

RouterReturn ==
    /\ rpc = "done"
    /\ rpc' = "idle"
    /\ rcall' = NoCall
    /\ rresult' = NoResult
    /\ UNCHANGED <<sources, norm, callers, cvars>>

RouterNext == get_hourly \/ get_nowcast \/ RouterReturn

SpecRouter == RouterInit /\ [][RouterNext]_vars

(***************************************************************************)
(* Cache and provider state machines                                       *)
(***************************************************************************)
RouterIdle ==
    /\ sources = <<>>
    /\ rpc = "idle"
    /\ rcall = NoCall
    /\ rresult = NoResult
    /\ norm = NoPayload
    /\ callers = <<>>

\* The cache keys the provider under test reads and writes.
KeysOf(p) ==
    CASE p.name = "openweather" ->
            {CacheKey(p.name, "hourly", [lat |-> Location.lat, lon |-> Location.lon])}
      [] p.name = "openmeteo_ecmwf" ->
            {CacheKey(p.name, "hourly",
                      [lat |-> Location.lat, lon |-> Location.lon, models |-> <<"ecmwf">>])}
      [] p.name = "tomorrow_io" ->
            {CacheKey(p.name, "hourly",
                      [lat |-> Location.lat, lon |-> Location.lon, timestep |-> "1h"]),
             CacheKey(p.name, "nowcast",
                      [lat |-> Location.lat, lon |-> Location.lon, timestep |-> "15m"])}
      [] OTHER -> {CacheKey(p.name, "nowcast", [horizon |-> 1])}

Tick ==
    /\ now < MaxClock
    /\ now' = now + 1
    /\ UNCHANGED <<rvars, http, store, storeOk, cret, written, prov, pst>>

CacheSet ==
    \E key \in KeysOf(prov), frame \in {normalize_openmeteo([kind |-> "ok", version |-> v, rows |-> "full"]) : v \in Versions}, ttl_seconds \in 1 .. Ttl :
        LET put == Cache_set(store, storeOk, key, frame, ttl_seconds, now)
        IN /\ store' = put.store
           /\ cret' = [op |-> "set", key |-> key, time |-> now, raised |-> put.raised, ret |-> None]
           /\ written' = IF put.raised THEN written
                         ELSE Replace(written, key,
                                      [time |-> now, ttl |-> ttl_seconds, frame |-> frame,
                                       full |-> frame, op |-> "set", start |-> 0, end |-> 0,
                                       ret |-> frame])
           /\ UNCHANGED <<rvars, http, now, storeOk, prov, pst>>

CacheGet ==
    \E key \in KeysOf(prov) :
        LET got == Cache_get(store, storeOk, key, now)
        IN /\ store' = got.store
           /\ cret' = [op |-> "get", key |-> key, time |-> now, raised |-> got.raised, ret |-> got.ret]
           /\ UNCHANGED <<rvars, http, now, storeOk, written, prov, pst>>

Effects(op, start_ts, end_ts, r, elapsed) ==
    /\ store' = r.store
    /\ pst' = r.pst
    /\ now' = IF r.fetched THEN now + elapsed ELSE now
    /\ cret' = [op |-> op, start |-> start_ts, end |-> end_ts, time |-> now,
                raised |-> r.raised, ret |-> r.ret, data |-> r.data, key |-> r.key,
                lookup |-> r.lookup, hit |-> r.hit, fetched |-> r.fetched,
                wrote |-> r.wrote, setTime |-> r.setTime, cacheFault |-> r.cacheFault]
    /\ written' = IF r.wrote
                  THEN Replace(written, r.key,
                               [time |-> r.setTime,
                                ttl |-> ttl_for(prov, IF op = "get_hourly" THEN "hourly" ELSE "nowcast", 0),
                                frame |-> r.data, full |-> r.full, op |-> op,
                                start |-> start_ts, end |-> end_ts, ret |-> r.ret])
                  ELSE written
    /\ UNCHANGED <<rvars, http, storeOk, prov>>

GetHourly ==
    \E w \in {<<0, HourTicks>>, <<HourTicks, 2 * HourTicks>>}, resp \in Responses, elapsed \in 0 .. 1 :
        /\ now + elapsed <= MaxClock
        /\ Effects("get_hourly", w[1], w[2],
                   Provider_get_hourly(prov, pst, store, storeOk, resp, w[1], w[2], now, elapsed),
                   elapsed)

GetNowcast ==
    \E resp \in Responses, elapsed \in 0 .. 1 :
        /\ now + elapsed <= MaxClock
        /\ Effects("get_nowcast", 1, 1,
                   Provider_get_nowcast(prov, pst, store, storeOk, resp, 1, now, elapsed),
                   elapsed)

Corrupt ==
    \E key \in DOMAIN store :
        /\ store[key].payload # Garbage
        /\ store' = [store EXCEPT ![key].payload = Garbage]
        /\ UNCHANGED <<rvars, http, now, storeOk, cret, written, prov, pst>>

StoreFail ==
    /\ storeOk
    /\ storeOk' = FALSE
    /\ UNCHANGED <<rvars, http, now, store, cret, written, prov, pst>>

StoreRecover ==
    /\ ~storeOk
    /\ storeOk' = TRUE
    /\ UNCHANGED <<rvars, http, now, store, cret, written, prov, pst>>

CacheInit ==
    /\ RouterIdle
    /\ CacheIdle
    /\ prov = NewProvider("tomorrow_io", Ttl, TRUE)

CacheNext == CacheSet \/ CacheGet \/ Tick

SpecCache == CacheInit /\ [][CacheNext]_vars

ProviderInit ==
    /\ RouterIdle
    /\ CacheIdle
    /\ prov \in {NewProvider(n, ttl, TRUE) : n \in {"openweather", "openmeteo_ecmwf", "tomorrow_io", "rainviewer_nowcast"}, ttl \in {0, Ttl}}

ProviderNext == GetHourly \/ GetNowcast \/ Tick

SpecProvider == ProviderInit /\ [][ProviderNext]_vars

FaultyInit ==
    /\ RouterIdle
    /\ CacheIdle
    /\ prov \in {NewProvider("openmeteo_ecmwf", ttl, TRUE) : ttl \in {0, NaN, Ttl}}

FaultyNext == CacheSet \/ CacheGet \/ GetHourly \/ Tick \/ Corrupt \/ StoreFail \/ StoreRecover

SpecFaulty == FaultyInit /\ [][FaultyNext]_vars

(***************************************************************************)
(* Concurrent callers of one store.  Each caller works through a           *)
(* WeatherCache object: the object both share, or an object of its own     *)
(* opened on the same path (Provider.__init__ opens WeatherCache.default() *)
(* when it is given no cache).  The lock belongs to the object.  A step is *)
(* one statement run against the store; a write and its commit are one     *)
(* step, as the database makes them.                                       *)
(***************************************************************************)
IdleCaller(cache) ==
    [cache |-> cache, pc |-> "idle", time |-> 0, ttl |-> 0, frame |-> empty_frame, ret |-> None]

\* The lock of a WeatherCache object is held by the get that found an
\* expired row and has not deleted it yet.
Held(cache) == \E c \in DOMAIN callers : callers[c].cache = cache /\ callers[c].pc = "delete"

\* get: take the lock, SELECT, compare expires_at with the clock; a live row
\* is unpickled after the lock is released.
get_select ==
    \E c \in DOMAIN callers, key \in KeysOf(prov) :
        /\ callers[c].pc = "idle"
        /\ ~Held(callers[c].cache)
        /\ callers' = [callers EXCEPT ![c] =
              IF key \notin DOMAIN store THEN [@ EXCEPT !.ret = None]
              ELSE IF Expired(store[key].expires_at, now) THEN [@ EXCEPT !.pc = "delete", !.ret = None]
              ELSE [@ EXCEPT !.ret = Some(read_pickle(store[key].payload).value)]]
        /\ UNCHANGED <<sources, rpc, rcall, rresult, norm, cvars>>

\* get: DELETE by key, commit, release the lock, return a miss.
get_delete ==
    \E c \in DOMAIN callers, key \in KeysOf(prov) :
        /\ callers[c].pc = "delete"
        /\ store' = Delete(store, key)
        /\ callers' = [callers EXCEPT ![c].pc = "idle"]
        /\ UNCHANGED <<sources, rpc, rcall, rresult, norm, now, storeOk, cret, written, prov, pst, http>>

\* set: read the clock and pickle the frame, before the lock is taken.
set_prepare ==
    \E c \in DOMAIN callers, ttl_seconds \in 1 .. Ttl,
       frame \in {normalize_openmeteo([kind |-> "ok", version |-> v, rows |-> "full"]) : v \in Versions} :
        /\ callers[c].pc = "idle"
        /\ callers' = [callers EXCEPT ![c] =
              [@ EXCEPT !.pc = "replace", !.time = now, !.ttl = ttl_seconds, !.frame = frame, !.ret = None]]
        /\ UNCHANGED <<sources, rpc, rcall, rresult, norm, cvars>>

\* set: take the lock, REPLACE the row, commit, release the lock.
set_replace ==
    \E c \in DOMAIN callers, key \in KeysOf(prov) :
        /\ callers[c].pc = "replace"
        /\ ~Held(callers[c].cache)
        /\ store' = Cache_set(store, storeOk, key, callers[c].frame, callers[c].ttl, callers[c].time).store
        /\ written' = Replace(written, key,
                              [time |-> callers[c].time, ttl |-> callers[c].ttl, frame |-> callers[c].frame])
        /\ callers' = [callers EXCEPT ![c] = IdleCaller(@.cache)]
        /\ UNCHANGED <<sources, rpc, rcall, rresult, norm, now, storeOk, cret, prov, pst, http>>

SharedInit ==
    /\ sources = <<>>
    /\ rpc = "idle"
    /\ rcall = NoCall
    /\ rresult = NoResult
    /\ norm = NoPayload
    /\ callers \in {<<IdleCaller(1), IdleCaller(cache)>> : cache \in {1, 2}}
    /\ CacheIdle
    /\ prov = NewProvider("openweather", Ttl, TRUE)

SharedNext == get_select \/ get_delete \/ set_prepare \/ set_replace \/ Tick

SpecShared == SharedInit /\ [][SharedNext]_vars

(***************************************************************************)
(* Request state machine: one provider instance, its calls one after the   *)
(* other, each HTTP exchange a step.                                       *)
(***************************************************************************)
HttpProviders ==
    {NewProviderWith("openweather", Ttl, skip, mode, retries, backoff) :
        skip \in BOOLEAN, mode \in {"auto", "onecall", "forecast"}, retries \in 0 .. MaxRetries,
        backoff \in 1 .. MaxBackoff}
    \cup {NewProviderWith("tomorrow_io", Ttl, skip, "auto", retries, backoff) :
             skip \in BOOLEAN, retries \in 0 .. MaxRetries, backoff \in 1 .. MaxBackoff}
    \cup {NewProviderWith(n, Ttl, TRUE, "auto", retries, backoff) :
             n \in {"openmeteo_ecmwf", "rainviewer_nowcast"}, retries \in 0 .. MaxRetries,
             backoff \in 1 .. MaxBackoff}

HttpGetHourly ==
    /\ http.pc = "done"
    /\ LET r == StartHourly(prov, pst)
       IN http' = r.h /\ pst' = r.pst
    /\ UNCHANGED <<rvars, now, store, storeOk, cret, written, prov>>

HttpGetNowcast ==
    /\ http.pc = "done"
    /\ LET r == StartNowcast(prov, pst)
       IN http' = r.h /\ pst' = r.pst
    /\ UNCHANGED <<rvars, now, store, storeOk, cret, written, prov>>

HttpExchange ==
    /\ http.pc \in Endpoints
    /\ \E status \in {200, 401, 403, 500} :
          LET r == Exchange(prov, pst, http, status)
          IN http' = r.h /\ pst' = r.pst
    /\ UNCHANGED <<rvars, now, store, storeOk, cret, written, prov>>

HttpInit ==
    /\ RouterIdle
    /\ now = 0
    /\ store = EmptyTable
    /\ storeOk = TRUE
    /\ cret = NoCall
    /\ written = EmptyTable
    /\ prov \in HttpProviders
    /\ pst = InitialState(prov)
    /\ http = NoRequest

HttpNext == HttpGetHourly \/ HttpGetNowcast \/ HttpExchange

SpecHttp == HttpInit /\ [][HttpNext]_vars

(***************************************************************************)
(* Schema state machine: the program normalizes a payload or serves a      *)
(* router request, one call at a time.                                     *)
(***************************************************************************)
NormalizeCall ==
    /\ rpc = "idle"
    /\ norm = NoPayload
    /\ \E fn \in {"openweather_onecall", "openweather_forecast", "openmeteo", "tomorrow"} : \E payload \in Payloads(fn) :
          \E out \in Normalize(fn, payload) :
             norm' = [fn |-> fn, payload |-> payload, raised |-> out.raised,
                      frame |-> out.frame, origin |-> out.origin]
    /\ UNCHANGED <<sources, rpc, rcall, rresult, callers, cvars>>

NormalizeReturn ==
    /\ norm # NoPayload
    /\ norm' = NoPayload
    /\ UNCHANGED <<sources, rpc, rcall, rresult, callers, cvars>>

\* get_hourly of a router whose only provider returns the series that was
\* normalized: the rows inside the window, in the order of the series, each
\* attributed to the provider if it holds a value.  The merge reindexes the
\* series on its own index, which leaves it as it is.
get_hourly_normalized ==
    /\ rpc = "idle"
    /\ norm # NoPayload
    /\ ~norm.raised
    /\ Len(sources) = 1
    /\ \E w \in {<<0, 0>>, <<0, HourTicks>>, <<HourTicks, HourTicks>>} :
          LET df == norm.frame
              keep == SortedSeq({i \in DOMAIN df.index : df.index[i] >= w[1] /\ df.index[i] <= w[2]})
              merged == Frame(REQUIRED_COLUMNS \o <<"source">>,
                              [i \in DOMAIN keep |-> df.index[keep[i]]],
                              [i \in DOMAIN keep |->
                                  [c \in AllColumns \cup {"source"} |->
                                      IF c # "source" THEN df.rows[keep[i]][c]
                                      ELSE IF \E d \in AllColumns : df.rows[keep[i]][d] # NaN
                                           THEN sources[1].name ELSE NaNObj]])
          IN /\ rcall' = [op |-> "get_hourly", start |-> w[1], end |-> w[2]]
             /\ rresult' = IF Len(keep) = 0 THEN [NoResult EXCEPT !.called = <<sources[1].name>>]
                           ELSE [raised |-> FALSE, called |-> <<sources[1].name>>,
                                 merged |-> merged, frame |-> merged]
    /\ rpc' = "done"
    /\ UNCHANGED <<sources, norm, callers, cvars>>

SchemaNext ==
    \/ NormalizeCall
    \/ NormalizeReturn
    \/ get_hourly_normalized
    \/ ((norm = NoPayload \/ rpc = "done") /\ RouterNext)

SpecSchema == RouterInit /\ [][SchemaNext]_vars

(***************************************************************************)
(* Router properties                                                       *)
(***************************************************************************)
RouterDone == rpc = "done"

\* Positions (in priority order) of the providers the request asks.
Asked == {i \in DOMAIN sources : rcall.op = "get_hourly" \/ sources[i].nowcast}

Survivors == {i \in Asked : rcall.outcome[sources[i].name].kind = "ok"}

\* The series provider i contributes to the request.
Series(i) ==
    LET f == ensure_schema(ProviderFrame(sources[i], rcall.outcome[sources[i].name].shape,
                                       IF rcall.op = "get_hourly" THEN "hourly" ELSE "nowcast"))
    IN IF rcall.op = "get_hourly" THEN Loc(f, rcall.start, rcall.end) ELSE f

\* All contributed series at once, by position.
AllSeries == [i \in Survivors |-> Series(i)]

\* C1: every cell (t, c) of the merge holds the value of a provider of
\* lowest priority number among those with a non-missing value at (t, c),
\* and is missing only when no provider has a value there; the merged
\* timeline is the union of the providers' timestamps.
C1_PriorityFill ==
    RouterDone =>
        LET S == AllSeries
            U == UNION {Range(S[i].index) : i \in DOMAIN S}
            m == rresult.merged
        IN /\ Range(m.index) = U
           /\ \A t \in U, c \in AllColumns :
                 LET have == {i \in DOMAIN S : t \in Range(S[i].index) /\ S[i].rows[t][c] # NaN}
                 IN IF have = {} THEN m.rows[t][c] = NaN
                    ELSE \E i \in have :
                           /\ \A j \in have : sources[i].priority <= sources[j].priority
                           /\ m.rows[t][c] = S[i].rows[t][c]

\* C1 witness: a cell both providers report keeps the preferred provider's
\* value while another cell of the same merge is gap-filled from the backup.
C1_Witness ==
    /\ RouterDone
    /\ Len(sources) = 2 /\ Survivors = {1, 2}
    /\ LET S == AllSeries
           m == rresult.merged
       IN \E t, u \in Range(S[1].index) \cap Range(S[2].index) :
             /\ S[1].rows[t]["temp_C"] # NaN /\ S[2].rows[t]["temp_C"] # NaN
             /\ m.rows[t]["temp_C"] = S[1].rows[t]["temp_C"]
             /\ S[1].rows[u]["temp_C"] = NaN /\ S[2].rows[u]["temp_C"] # NaN
             /\ m.rows[u]["temp_C"] = S[2].rows[u]["temp_C"]

\* C2: the "source" of a merged row is the name of the first provider, in
\* ascending priority order, with any non-missing canonical value in that
\* row, whichever providers filled the row's individual cells.
C2_RowSource ==
    RouterDone =>
        LET S == AllSeries
            m == rresult.merged
        IN \A t \in Range(m.index) :
              LET any == {i \in DOMAIN S : /\ t \in Range(S[i].index)
                                           /\ \E c \in AllColumns : S[i].rows[t][c] # NaN}
              IN any # {} =>
                   /\ m.rows[t]["source"] = sources[Min(any)].name
                   /\ \A j \in any : sources[Min(any)].priority <= sources[j].priority

\* C2 witness: a row attributed to the first provider although one of its
\* cells was filled by the second.
C2_Witness ==
    /\ RouterDone
    /\ Len(sources) = 2 /\ Survivors = {1, 2}
    /\ LET S == AllSeries
           m == rresult.merged
       IN \E t \in Range(S[1].index) \cap Range(S[2].index) :
             /\ m.rows[t]["source"] = sources[1].name
             /\ S[1].rows[t]["ghi_Wm2"] = NaN
             /\ S[1].rows[t]["temp_C"] # NaN
             /\ S[2].rows[t]["ghi_Wm2"] # NaN
             /\ m.rows[t]["ghi_Wm2"] = S[2].rows[t]["ghi_Wm2"]

SurvivorFrames ==
    LET order == SortedSeq(Survivors)
        S == AllSeries
    IN [k \in DOMAIN order |-> <<sources[order[k]].name, S[order[k]]>>]

\* C3: a failing provider never aborts a router request; the request
\* returns, and what it merged is the merge of the series of the providers
\* that did not fail.
C3_FailuresSkipped ==
    RouterDone =>
        LET expected == _merge(SurvivorFrames)
        IN /\ ~rresult.raised
           /\ rresult.merged = expected
           /\ rcall.op = "get_hourly" => rresult.frame = expected

\* C3 witness: a request in which one provider raised and another one
\* supplied the rows of the result.
C3_Witness ==
    /\ RouterDone
    /\ Asked \ Survivors # {}
    /\ Survivors # {}
    /\ ~rresult.raised
    /\ Len(rresult.frame.index) > 0

NoData(i) ==
    \/ i \notin Survivors
    \/ \A k \in Steps : rcall.outcome[sources[i].name].shape[k] = "absent"

\* C4: when every provider raises or returns no rows, the router returns an
\* empty series with the canonical columns followed by "source".
C4_TotalFailure ==
    (RouterDone /\ \A i \in Asked : NoData(i)) =>
        /\ ~rresult.raised
        /\ Len(rresult.frame.index) = 0
        /\ rresult.frame.columns = REQUIRED_COLUMNS \o <<"source">>

\* C4 witness: a total failure in which a provider raised and another
\* returned no rows.
C4_Witness ==
    /\ RouterDone
    /\ \A i \in Asked : NoData(i)
    /\ Asked \ Survivors # {}
    /\ \E i \in Survivors : NoData(i)
    /\ Len(rresult.frame.index) = 0
(***************************************************************************)
(* Cache and provider properties                                           *)
(***************************************************************************)
ProviderOps == {"get_hourly", "get_nowcast"}

\* A step that performs a provider call: every other step leaves the
\* record of the last call alone while it changes the clock or the store.
CallStep ==
    /\ cret'.op \in ProviderOps
    /\ ~(cret' = cret /\ (now' # now \/ store' # store \/ storeOk' # storeOk))

\* The TTL the provider under test registered for the scope of an operation.
TtlOf(op) == ttl_for(prov, IF op = "get_hourly" THEN "hourly" ELSE "nowcast", 0)

\* C5 (amended): after set(provider, scope, key, series, ttl), a get of the
\* same key at any time up to and including set-time + ttl returns a series
\* equal to the stored one, and a get at any later time returns a miss.
C5_RoundTripExpiry ==
    (cret.op = "get" /\ cret.key \in DOMAIN written) =>
        LET w == written[cret.key]
        IN IF cret.time <= w.time + w.ttl THEN cret.ret = Some(w.frame)
           ELSE cret.ret = None

\* C5 witness: a get issued exactly at set-time + ttl returned the stored series.
C5_Witness ==
    /\ cret.op = "get"
    /\ cret.key \in DOMAIN written
    /\ cret.time = written[cret.key].time + written[cret.key].ttl
    /\ cret.ret = Some(written[cret.key].frame)

\* C5 as stated: a get strictly before set-time + ttl returns the stored
\* series and a get at any time >= set-time + ttl returns a miss.
C5_Original ==
    (cret.op = "get" /\ cret.key \in DOMAIN written) =>
        LET w == written[cret.key]
        IN IF cret.time < w.time + w.ttl THEN cret.ret = Some(w.frame)
           ELSE cret.ret = None

\* C6 as stated: cache failures are never propagated to the caller; get
\* answers a miss, set is a no-op and fetch_with_cache still returns the
\* fetched data.
C6_NeverPropagated ==
    ~(IF cret.op \in {"get", "set"} THEN cret.raised
      ELSE IF cret.op \in ProviderOps THEN cret.cacheFault
      ELSE FALSE)

\* C7 (amended): within the TTL of a non-empty fetch, every request for the
\* same key is answered from the cache without invoking the fetcher, with
\* the series that fetch stored; a get_hourly for the same window returns a
\* series equal to the first result (get_nowcast clips the cached series to
\* the window of the current clock again).
C7_SingleFetch ==
    [][
    LET k == cret'.key
    IN (/\ CallStep
        /\ k \in DOMAIN written
        /\ now <= written[k].time + written[k].ttl) =>
            /\ cret'.hit
            /\ ~cret'.fetched
            /\ cret'.data = written[k].frame
            /\ (/\ cret'.op = "get_hourly"
                /\ written[k].op = "get_hourly"
                /\ cret'.start = written[k].start
                /\ cret'.end = written[k].end) => cret'.ret = written[k].ret
    ]_vars

\* C7 witness: a later request inside the TTL was a hit on the series the
\* first fetch stored, and gave the first result.
C7_Witness ==
    /\ cret.op = "get_hourly"
    /\ cret.hit
    /\ cret.key \in DOMAIN written
    /\ cret.time > written[cret.key].time
    /\ cret.start = written[cret.key].start
    /\ cret.end = written[cret.key].end
    /\ cret.ret = written[cret.key].ret
    /\ ~IsEmpty(cret.ret)

\* C7 as stated: within the TTL of the first non-empty fetch every identical
\* request invokes no fetcher and returns a series equal to the first result.
C7_Original ==
    [][
    LET k == cret'.key
    IN (/\ CallStep
        /\ k \in DOMAIN written
        /\ now <= written[k].time + written[k].ttl
        /\ cret'.op = written[k].op
        /\ cret'.start = written[k].start
        /\ cret'.end = written[k].end) =>
            /\ ~cret'.fetched
            /\ cret'.ret = written[k].ret
    ]_vars

\* C8 as stated: every network request a provider issues is preceded by a
\* cache lookup for the request's key and is issued only when it missed.
C8_LookupBeforeRequest ==
    (cret.op \in ProviderOps /\ cret.fetched) => (cret.lookup /\ ~cret.hit)

\* C9 (amended): a successful fetch performed on a cache miss that returned a
\* non-empty series is written back under the request's key with expiry =
\* time of the write + the scope's TTL, and a request for that key up to
\* that expiry is a cache hit; an empty series is not written.
C9_WriteBack ==
    [][
    LET k == cret'.key
    IN /\ (CallStep /\ cret'.fetched /\ ~cret'.raised /\ cret'.lookup) =>
              IF IsEmpty(cret'.data) THEN k \notin DOMAIN store'
              ELSE /\ k \in DOMAIN store'
                   /\ store'[k] = [expires_at |-> now' + TtlOf(cret'.op),
                                   payload |-> to_pickle(cret'.data)]
       /\ (CallStep /\ k \in DOMAIN store /\ now <= store[k].expires_at) =>
              /\ cret'.hit
              /\ cret'.data = store[k].payload.obj
    ]_vars

\* C9 witness: a fetch that took time wrote its non-empty series with
\* expiry = time of the write + TTL.
C9_Witness ==
    /\ cret.op \in ProviderOps
    /\ cret.fetched
    /\ cret.wrote
    /\ cret.setTime > cret.time
    /\ now = cret.setTime
    /\ cret.key \in DOMAIN store
    /\ store[cret.key].expires_at = cret.setTime + TtlOf(cret.op)
    /\ store[cret.key].payload = to_pickle(cret.data)

\* C9 as stated: every successful fetch performed on a cache miss is written
\* back with expiry = current time + TTL, whatever the series contains.
C9_Original ==
    [][
    LET k == cret'.key
    IN (CallStep /\ cret'.fetched /\ ~cret'.raised /\ cret'.lookup) =>
           /\ k \in DOMAIN store'
           /\ store'[k].expires_at = now' + TtlOf(cret'.op)
    ]_vars

\* C10 as stated: a get_hourly answered from the cache contains every
\* timestamp the provider's payload has inside the requested window.
C10_WindowIndependent ==
    (cret.op = "get_hourly" /\ cret.hit /\ cret.key \in DOMAIN written) =>
        Range(Loc(written[cret.key].full, cret.start, cret.end).index)
            \subseteq Range(cret.ret.index)

(***************************************************************************)
(* Request properties                                                      *)
(***************************************************************************)
CallDone == http.op # "none" /\ http.pc = "done"

Sent(e) == Len(http.answers[e])

Requests == {e \in Endpoints : Sent(e) > 0}

\* C11 as stated: with skip_on_auth_failure=true, a call of a provider not
\* yet disabled in which the service answers 401/403 returns an empty series
\* without raising and disables the provider, and every call on a disabled
\* provider returns an empty series and sends no request.
C11_AuthDisables ==
    (prov.name \in {"openweather", "tomorrow_io"} /\ prov.skip_on_auth_failure /\ CallDone) =>
        /\ (/\ ~http.entry.disabled
            /\ Requests # {}
            /\ \A e \in Requests : \A i \in 1 .. Sent(e) : IsAuthStatus(http.answers[e][i])) =>
               (http.outcome = "empty" /\ pst.disabled)
        /\ http.entry.disabled => (http.outcome = "empty" /\ Requests = {})

\* C12 as stated: with skip_on_auth_failure=false no request follows a
\* 401/403 answer of an endpoint and no backoff sleep is taken for it, a call
\* that ends on a 401/403 raises the authentication error, and the provider
\* is never disabled.
C12_AuthFatal ==
    (prov.name \in {"openweather", "tomorrow_io"} /\ ~prov.skip_on_auth_failure) =>
        /\ \A e \in Requests : \A i \in 1 .. Sent(e) :
               IsAuthStatus(http.answers[e][i]) =>
                   (i = Sent(e) /\ Len(http.waits[e]) < i)
        /\ (/\ CallDone
            /\ http.passes # <<>>
            /\ \E e \in Requests : /\ e = http.passes[Len(http.passes)]
                                   /\ IsAuthStatus(http.answers[e][Sent(e)])) =>
               (http.outcome = "raise" /\ http.error = "auth")
        /\ ~pst.disabled

\* C13: a call sends at most retries requests to an endpoint, sends none
\* after a successful attempt, sleeps attempt * backoff after each failed
\* attempt taken as transient, and raises out of the request loop once
\* retries attempts have failed.
C13_RetryBound ==
    \A e \in Endpoints :
        LET a == http.answers[e]
            w == http.waits[e]
        IN /\ Len(a) <= prov.retries
           /\ \A i \in 1 .. Len(a) : a[i] = 200 => i = Len(a)
           /\ Len(w) <= Len(a)
           /\ \A i \in 1 .. Len(w) : w[i] = i * prov.backoff /\ a[i] # 200
           /\ \A i \in 1 .. Len(a) : a[i] = 500 => Len(w) >= i
           /\ (/\ Len(a) = prov.retries
               /\ Len(w) = prov.retries
               /\ prov.retries > 0) =>
                  /\ http.pc # e
                  /\ CallDone => (http.outcome = "raise" \/ (e = "onecall" /\ prov.api_mode = "auto"))

\* C13 witness: a call that failed every attempt, slept backoff, 2 * backoff
\* and raised.
C13_Witness ==
    /\ CallDone
    /\ http.outcome = "raise"
    /\ prov.retries >= 2
    /\ prov.backoff >= 2
    /\ \E e \in Endpoints : Sent(e) = prov.retries /\ Len(http.waits[e]) = prov.retries

\* The number of retry loops the call entered against endpoint e.
Passes(e) == Cardinality({i \in DOMAIN http.passes : http.passes[i] = e})

AlternateOk ==
    /\ Sent("forecast") > 0 /\ http.answers["forecast"][Sent("forecast")] = 200
    /\ Sent("current") > 0 /\ http.answers["current"][Sent("current")] = 200

\* C14: in api_mode "auto", a call that starts on One Call and fails there
\* (401/403, or retries exhausted) makes exactly one pass against the
\* forecast endpoints in the same call; it returns their data if they
\* answer, and raises or disables the provider only if they fail too.
C14_EndpointFallback ==
    (/\ prov.name = "openweather" /\ prov.api_mode = "auto"
     /\ CallDone /\ http.op = "get_hourly"
     /\ ~http.entry.disabled /\ ~http.entry.force_forecast_only) =>
        /\ http.passes[1] = "onecall"
        /\ Passes("onecall") = 1
        /\ IF Sent("onecall") > 0 /\ http.answers["onecall"][Sent("onecall")] = 200
           THEN http.passes = <<"onecall">> /\ http.outcome = "payload"
           ELSE /\ Passes("forecast") = 1
                /\ Passes("current") <= 1
                /\ AlternateOk => (http.outcome = "payload" /\ http.mode = "forecast")
                /\ ~AlternateOk => http.outcome \in {"raise", "empty"}
                /\ http.outcome = "empty" => pst.disabled

\* C14 witness: One Call rejected the key and the forecast endpoints served
\* the call.
C14_Witness ==
    /\ prov.name = "openweather" /\ prov.api_mode = "auto"
    /\ CallDone
    /\ ~http.entry.force_forecast_only
    /\ Sent("onecall") = 1
    /\ IsAuthStatus(http.answers["onecall"][1])
    /\ http.passes = <<"onecall", "forecast", "current">>
    /\ http.outcome = "payload"

(***************************************************************************)
(* Nowcast properties of the router                                        *)
(***************************************************************************)
\* C15: a nowcast request never calls a provider that reports no nowcast
\* capability; such a provider gives the result neither rows nor source
\* names, whatever a call of it would have returned or raised, and the
\* request does not fail: the result is the one of the router without it.
C15_NowcastCapability ==
    (RouterDone /\ rcall.op = "get_nowcast") =>
        LET capable == SelectSeq(sources, LAMBDA p : p.nowcast)
        IN /\ \A i \in {j \in DOMAIN sources : ~sources[j].nowcast} : sources[i].name \notin Range(rresult.called)
           /\ \A t \in Range(rresult.frame.index), i \in {j \in DOMAIN sources : ~sources[j].nowcast} :
                 rresult.frame.rows[t]["source"] # sources[i].name
           /\ ~rresult.raised
           /\ rresult = Router_get_nowcast(capable, rcall.outcome)

\* C15 witness: a nowcast request of a router holding a provider without
\* nowcast capability, whose call would have returned rows, next to a
\* capable provider that supplied the result.
C15_Witness ==
    /\ (RouterDone /\ rcall.op = "get_nowcast")
    /\ \E i \in {j \in DOMAIN sources : ~sources[j].nowcast} :
          /\ rcall.outcome[sources[i].name].kind = "ok"
          /\ \E k \in Steps : rcall.outcome[sources[i].name].shape[k] = "data"
    /\ rresult.called # <<>>
    /\ Len(rresult.frame.index) > 0

\* C16: the index of a non-empty nowcast result lies on the 15-minute grid,
\* consecutive timestamps are exactly 15 minutes apart, and it runs from
\* the grid point at or before the first merged timestamp to the grid point
\* at or before the last one, none missing in between.
C16_NowcastGrid ==
    ((RouterDone /\ rcall.op = "get_nowcast") /\ ~IsEmpty(rresult.merged)) =>
        LET idx == rresult.frame.index
            m == rresult.merged.index
        IN /\ Len(idx) > 0
           /\ \A i \in DOMAIN idx : idx[i] % NowcastFreq = 0
           /\ \A i \in 1 .. Len(idx) - 1 : idx[i + 1] - idx[i] = NowcastFreq
           /\ idx[1] <= m[1] /\ m[1] - idx[1] < NowcastFreq
           /\ idx[Len(idx)] <= m[Len(m)] /\ m[Len(m)] - idx[Len(idx)] < NowcastFreq

\* C16 witness: providers at 10-minute and 15-minute cadence merged into a
\* timeline that starts off the grid, resampled to several grid rows.
C16_Witness ==
    /\ (RouterDone /\ rcall.op = "get_nowcast")
    /\ Cardinality({rresult.merged.rows[t]["source"] : t \in Range(rresult.merged.index)}) = 2
    /\ rresult.merged.index[1] % NowcastFreq # 0
    /\ \E t \in Range(rresult.merged.index) : t % NowcastFreq = 0
    /\ Len(rresult.frame.index) >= 2

\* Names of the providers whose series entered the nowcast merge.
Contributors == {sources[i].name : i \in {j \in Survivors : ~IsEmpty(Series(j))}}

\* C17 as stated: the source of every grid row is the merge's source at the
\* latest merged timestamp at or before it, and every row of a non-empty
\* nowcast result names one of the contributing providers.
C17_Original ==
    ((RouterDone /\ rcall.op = "get_nowcast") /\ ~IsEmpty(rresult.merged)) =>
        \A g \in Range(rresult.frame.index) :
            /\ \E t \in Range(rresult.merged.index) :
                  /\ t <= g
                  /\ \A u \in Range(rresult.merged.index) : u <= g => u <= t
                  /\ rresult.frame.rows[g]["source"] = rresult.merged.rows[t]["source"]
            /\ rresult.frame.rows[g]["source"] \in Contributors

\* C17: the source of a grid row is the merge's source at the latest merged
\* timestamp at or before it, taken as it is (a contributing provider's
\* name, or missing when that merged row had no value at all), and it is
\* missing when no merged timestamp is at or before the grid row.
C17_SourcePad ==
    ((RouterDone /\ rcall.op = "get_nowcast") /\ ~IsEmpty(rresult.merged)) =>
        \A g \in Range(rresult.frame.index) :
            LET before == {t \in Range(rresult.merged.index) : t <= g}
                src == rresult.frame.rows[g]["source"]
            IN /\ src \in Contributors \cup {NaNObj}
               /\ before = {} => src = NaNObj
               /\ before # {} => src = rresult.merged.rows[Max(before)]["source"]

\* C17 witness: a result whose first grid row precedes every merged
\* timestamp and has no source, and whose later grid row, absent from the
\* merged timeline, takes the source of an earlier merged row whose
\* successor belongs to the other provider.
C17_Witness ==
    /\ (RouterDone /\ rcall.op = "get_nowcast")
    /\ LET m == rresult.merged
           f == rresult.frame
       IN /\ Len(f.index) >= 2
          /\ f.rows[f.index[1]]["source"] = NaNObj
          /\ \E g \in Range(f.index) \ Range(m.index) :
                \E t, u \in Range(m.index) :
                   /\ t < g /\ g < u
                   /\ m.rows[t]["source"] \in Contributors
                   /\ m.rows[u]["source"] \in Contributors \ {m.rows[t]["source"]}
                   /\ \A v \in Range(m.index) : ~(t < v /\ v < g)
                   /\ f.rows[g]["source"] = m.rows[t]["source"]

(***************************************************************************)
(* Algebraic properties of the merge                                       *)
(***************************************************************************)
\* C18: the merge is a function of the ordered provider series alone: what
\* a request merged equals the merge of the same series computed again,
\* however many requests came before; and merging the merged series again,
\* as the single series of a provider, gives the same timeline and the same
\* value in every canonical cell.
C18_MergeIdempotent ==
    RouterDone =>
        LET m == rresult.merged
            twice == _merge(SurvivorFrames)
            again == _merge(<<<<"merged", m>>>>)
        IN /\ twice = m
           /\ again.index = m.index
           /\ \A t \in Range(m.index), c \in AllColumns : again.rows[t][c] = m.rows[t][c]

\* C18 witness: a merge of two providers in which a cell was gap-filled and
\* another is still missing, merged again.
C18_Witness ==
    /\ RouterDone
    /\ Cardinality(Survivors) = 2
    /\ LET m == rresult.merged
       IN /\ Cardinality({m.rows[t]["source"] : t \in Range(m.index)} \ {NaNObj}) = 2
          /\ \E t \in Range(m.index) : m.rows[t]["ghi_Wm2"] = NaN /\ m.rows[t]["temp_C"] # NaN
          /\ \E t \in Range(m.index) : m.rows[t]["source"] = "primary" /\ m.rows[t]["ghi_Wm2"] # NaN
          /\ _merge(<<<<"merged", m>>>>).index = m.index

\* The request of the current call, answered by a router built from srcs.
Replay(srcs) ==
    IF rcall.op = "get_hourly"
    THEN Router_get_hourly(WeatherRouter_init(srcs), rcall.outcome, rcall.start, rcall.end)
    ELSE Router_get_nowcast(WeatherRouter_init(srcs), rcall.outcome)

\* C19: for providers with pairwise distinct priorities, a router built
\* from any permutation of the same providers returns the same get_hourly
\* and get_nowcast results.
C19_OrderIndependent ==
    (RouterDone /\ (\A i, j \in DOMAIN sources : i # j => sources[i].priority # sources[j].priority)) =>
        \A p \in {q \in [DOMAIN sources -> Range(sources)] :
                    \A i, j \in DOMAIN sources : i # j => q[i] # q[j]} :
            /\ Replay(p).frame = rresult.frame
            /\ Replay(p).merged = rresult.merged
            /\ Replay(p).raised = rresult.raised

\* C19 witness: two providers of distinct priorities that both report a
\* value for the same cell, so that the order of filling decides the result.
C19_Witness ==
    /\ RouterDone
    /\ (\A i, j \in DOMAIN sources : i # j => sources[i].priority # sources[j].priority)
    /\ Len(sources) = 2 /\ Survivors = {1, 2}
    /\ LET S == AllSeries
       IN \E t \in Range(S[1].index) \cap Range(S[2].index) :
             /\ S[1].rows[t]["temp_C"] # NaN /\ S[2].rows[t]["temp_C"] # NaN
             /\ S[1].rows[t]["temp_C"] # S[2].rows[t]["temp_C"]
             /\ t \in Range(rresult.frame.index)
             /\ rresult.frame.rows[t]["temp_C"] = S[1].rows[t]["temp_C"]

(***************************************************************************)
(* Schema properties                                                       *)
(***************************************************************************)
\* C20: whatever the payload supplies, a normalizer that returns returns
\* exactly the seven canonical columns in canonical order, a cell being
\* missing exactly when the entry lacks the field the normalizer reads for
\* it; and every series the router returns has those columns followed by
\* "source".
C20_SchemaComplete ==
    /\ (norm # NoPayload /\ ~norm.raised) =>
          LET f == norm.frame
          IN /\ f.columns = REQUIRED_COLUMNS
             /\ \A i \in DOMAIN f.index :
                   /\ DOMAIN f.rows[i] = AllColumns
                   /\ \A c \in AllColumns :
                         (f.rows[i][c] = NaN) <=>
                             (FieldOf(norm.fn, c) \notin norm.payload.entries[norm.origin[i]].supplied)
    /\ RouterDone =>
          /\ rresult.frame.columns = REQUIRED_COLUMNS \o <<"source">>
          /\ \A t \in DOMAIN rresult.frame.rows :
                DOMAIN rresult.frame.rows[t] = AllColumns \cup {"source"}

\* C20 witness: a payload with an entry that supplies none of the fields,
\* normalized to a row of seven missing cells next to a row with a value.
C20_Witness ==
    /\ norm # NoPayload
    /\ ~norm.raised
    /\ \E i \in DOMAIN norm.frame.index :
          /\ norm.payload.entries[norm.origin[i]].kind = "dict"
          /\ norm.payload.entries[norm.origin[i]].supplied = {}
          /\ \A c \in AllColumns : norm.frame.rows[i][c] = NaN
    /\ \E i \in DOMAIN norm.frame.index : norm.frame.rows[i]["temp_C"] # NaN

\* C21 as stated: the series a normalizer returns has strictly increasing
\* timestamps, and for each timestamp the payload asserts it holds exactly
\* one row, the one of the entry that asserted it last.
C21_Deduplicated ==
    (norm # NoPayload /\ ~norm.raised) =>
        LET idx == norm.frame.index
            asserted(k) == RowOf(norm.fn, norm.payload, k).timestamp
            rowsOf == {k \in DOMAIN norm.payload.entries :
                          Disposition(norm.fn, norm.payload.entries[k]) = "row"}
        IN /\ \A i \in 1 .. Len(idx) - 1 : idx[i] < idx[i + 1]
           /\ \A k \in rowsOf :
                 LET at == {i \in DOMAIN idx : idx[i] = asserted(k)}
                 IN /\ Cardinality(at) = 1
                    /\ \A i \in at : \A j \in rowsOf :
                          asserted(j) = asserted(k) => j <= norm.origin[i]

\* C22 as stated: a normalizer never raises; it returns the canonical
\* columns with one row per entry whose timestamp can be parsed, and the
\* empty series when there is none.
C22_NeverRaises ==
    (norm # NoPayload) =>
        /\ ~norm.raised
        /\ norm.frame.columns = REQUIRED_COLUMNS
        /\ \A i \in DOMAIN norm.frame.index : norm.frame.index[i] # NaN
        /\ \A k \in DOMAIN norm.payload.entries :
              (/\ norm.payload.entries[k].kind # "scalar"
               /\ norm.payload.entries[k].dt \in {"ok", "same"})
                  => \E i \in DOMAIN norm.frame.index :
                        norm.frame.index[i] = RowOf(norm.fn, norm.payload, k).timestamp

\* C23 as stated: the CLI exits non-zero when no provider is configured or
\* when every configured provider raised or returned no data, and exits 0
\* when at least one provider supplied data.
C23_ExitStatus ==
    RouterDone =>
        (main(sources, rresult) = 0 <=> Contributors # {})

\* C24 as stated: under every interleaving of get and set calls on one key,
\* a get returns a miss or one whole series that was passed to set, the
\* stored row pairs a series with the expiry of the same set, and once the
\* calls have completed the store holds the entry of the set that committed
\* last (until that entry expires).
C24_LastWriteWins ==
    \A key \in KeysOf(prov) :
        /\ \A c \in DOMAIN callers :
              callers[c].ret.some =>
                  callers[c].ret.value \in
                      {normalize_openmeteo([kind |-> "ok", version |-> v, rows |-> "full"]) : v \in Versions}
        /\ (key \in DOMAIN store /\ key \in DOMAIN written) =>
              \E v \in Versions, t \in 0 .. MaxClock, ttl_seconds \in 1 .. Ttl :
                  store[key] = [expires_at |-> t + ttl_seconds,
                                payload |-> to_pickle(normalize_openmeteo([kind |-> "ok", version |-> v, rows |-> "full"]))]
        /\ ((\A c \in DOMAIN callers : callers[c].pc = "idle") /\ key \in DOMAIN written
                /\ ~Expired(written[key].time + written[key].ttl, now)) =>
              /\ key \in DOMAIN store
              /\ store[key] = [expires_at |-> written[key].time + written[key].ttl,
                               payload |-> to_pickle(written[key].frame)]

\* C25 as stated: the expiry check and the lazy delete of get are atomic
\* with respect to a set of another caller of the same store: the row a get
\* deletes is an expired row, never one whose expiry is still in the future.
C25_ExpiryAtomic ==
    [][\A key \in KeysOf(prov) :
          (key \in DOMAIN store /\ key \notin DOMAIN store') =>
              Expired(store[key].expires_at, now)]_vars

\* C26 as stated: every timestamp of the result of get_hourly(start, end)
\* lies in [start, end], whatever rows the providers returned, and the
\* result index is strictly increasing.
C26_WindowClipped ==
    (RouterDone /\ rcall.op = "get_hourly") =>
        LET idx == rresult.frame.index
        IN /\ \A i \in DOMAIN idx : rcall.start <= idx[i] /\ idx[i] <= rcall.end
           /\ \A i \in DOMAIN idx : i < Len(idx) => idx[i] < idx[i + 1]

C28_Provenance ==
    RouterDone =>
        LET S == AllSeries
            m == rresult.merged
        IN \A t \in Range(m.index) :
              LET holds(c) == {i \in DOMAIN S : t \in Range(S[i].index) /\ S[i].rows[t][c] # NaN}
                  suppliers == {i \in DOMAIN S :
                                   \E c \in AllColumns :
                                      /\ m.rows[t][c] # NaN
                                      /\ holds(c) # {}
                                      /\ i = Min(holds(c))
                                      /\ m.rows[t][c] = S[i].rows[t][c]}
              IN /\ (m.rows[t]["source"] = NaNObj) <=> (\A c \in AllColumns : m.rows[t][c] = NaN)
                 /\ (suppliers = {}) <=> (\A c \in AllColumns : m.rows[t][c] = NaN)
                 /\ suppliers # {} =>
                       /\ m.rows[t]["source"] = sources[Min(suppliers)].name
                       /\ \A j \in suppliers : sources[Min(suppliers)].priority <= sources[j].priority

\* C28 witness: a merge with a row whose cells come from two providers and
\* is attributed to the preferred one, and a row without any value and
\* without source.
C28_Witness ==
    /\ RouterDone
    /\ Len(sources) = 2 /\ Survivors = {1, 2}
    /\ LET S == AllSeries
           m == rresult.merged
       IN /\ \E t \in Range(m.index) :
                /\ m.rows[t]["source"] = NaNObj
                /\ \A c \in AllColumns : m.rows[t][c] = NaN
          /\ \E t \in Range(S[1].index) \cap Range(S[2].index), c, d \in AllColumns :
                /\ m.rows[t]["source"] = sources[1].name
                /\ S[1].rows[t][c] # NaN /\ m.rows[t][c] = S[1].rows[t][c]
                /\ S[1].rows[t][d] = NaN /\ S[2].rows[t][d] # NaN
                /\ m.rows[t][d] = S[2].rows[t][d]

\* C29: in OpenWeatherProvider with api_mode "auto", once One Call has
\* failed (a 401/403, or its attempts ran out) the instance is latched on the
\* forecast API: the rest of that call and every later call send requests
\* only to the forecast and current endpoints, never to One Call again,
\* whatever One Call would answer.
C29_ForecastLatch ==
    (prov.name = "openweather" /\ prov.api_mode = "auto" /\ http.op # "none") =>
        /\ http.entry.force_forecast_only =>
              /\ pst.force_forecast_only
              /\ Passes("onecall") = 0
              /\ Requests \subseteq {"forecast", "current"}
        /\ (/\ Passes("onecall") > 0
            /\ http.pc # "onecall"
            /\ ~(Sent("onecall") > 0 /\ http.answers["onecall"][Sent("onecall")] = 200)) =>
              pst.force_forecast_only

\* C29 witness: a call of a latched "auto" instance was served by the
\* forecast and current endpoints without a One Call request.
C29_Witness ==
    /\ prov.name = "openweather" /\ prov.api_mode = "auto"
    /\ CallDone
    /\ http.op = "get_hourly"
    /\ http.entry.force_forecast_only
    /\ ~http.entry.disabled
    /\ http.outcome = "payload"
    /\ Requests = {"forecast", "current"}

\* C30: a call that reaches fetch_with_cache with a TTL of 0 or with no TTL
\* does not look the key up, calls the fetcher, writes nothing and leaves
\* the store as it was, whatever the store holds under the key.
C30_TtlBypass ==
    [][(/\ CallStep
        /\ cret'.key.provider = prov.name
        /\ prov.ttl_scopes[cret'.key.scope] \in {0, NaN}) =>
           /\ ~cret'.lookup
           /\ ~cret'.hit
           /\ cret'.fetched
           /\ ~cret'.wrote
           /\ store' = store]_vars

\* C30 witness: with a TTL of 0 or none, a request fetched its series
\* although the store held an unexpired entry under its key, and the entry
\* is still there.
C30_Witness ==
    /\ cret.op = "get_hourly"
    /\ cret.time = now
    /\ prov.ttl_scopes["hourly"] \in {0, NaN}
    /\ cret.fetched /\ ~cret.raised /\ ~cret.lookup /\ ~cret.wrote
    /\ ~IsEmpty(cret.ret)
    /\ cret.key \in DOMAIN store
    /\ ~Expired(store[cret.key].expires_at, now)
    /\ read_pickle(store[cret.key].payload).value # cret.data

====
